---- MODULE Spec2Model ----
(***************************************************************************)
(* video_converter.py: main() walks the candidate video files and runs     *)
(* process_video on each one.  process_video probes the file, decides      *)
(* whether it has to be re-encoded, runs the encoder and compares the      *)
(* durations of input and output before it reports the original deleted.   *)
(*                                                                         *)
(* Every step of the model is one external call (ffprobe, ffmpeg, the      *)
(* file system) together with the Python code that runs up to the next     *)
(* external call.  The answers of the external tools are the inputs.       *)
(*                                                                         *)
(* Python values: None is the empty tuple, any other value v is <<v>>.     *)
(* Strings the code parses, formats or lower-cases are tuples of           *)
(* one-character strings; durations are counted in milliseconds.           *)
(***************************************************************************)
EXTENDS Integers, Sequences, FiniteSets

\* number of candidate files that find_video_files yields
NumFiles == 2

Files == 1 .. NumFiles

None == << >>
Some(v) == << v >>
Val(o) == o[1]

(***************************************************************************)
(* Strings: int(), str(), float(), str.lower()                             *)
(***************************************************************************)
DigitChars == <<"0", "1", "2", "3", "4", "5", "6", "7", "8", "9">>

IsDigit(c) == \E d \in 1 .. 10 : DigitChars[d] = c

DigitValue(c) == (CHOOSE d \in 1 .. 10 : DigitChars[d] = c) - 1

\* int(s) raises ValueError unless s is a decimal numeral
IsIntLiteral(s) == Len(s) > 0 /\ \A i \in 1 .. Len(s) : IsDigit(s[i])

RECURSIVE ParseInt(_)
ParseInt(s) ==
    IF Len(s) = 0 THEN 0
    ELSE 10 * ParseInt(SubSeq(s, 1, Len(s) - 1)) + DigitValue(s[Len(s)])

RECURSIVE Str(_)
Str(n) ==
    IF n < 10 THEN << DigitChars[n + 1] >>
    ELSE Append(Str(n \div 10), DigitChars[(n % 10) + 1])

\* float(s) for the "seconds.milliseconds" strings ffprobe prints; the
\* value is returned in milliseconds.  Anything else raises ValueError.
IsFloatLiteral(s) ==
    /\ Len(s) >= 5
    /\ s[Len(s) - 3] = "."
    /\ IsIntLiteral(SubSeq(s, 1, Len(s) - 4))
    /\ IsIntLiteral(SubSeq(s, Len(s) - 2, Len(s)))

ParseFloat(s) ==
    1000 * ParseInt(SubSeq(s, 1, Len(s) - 4)) + ParseInt(SubSeq(s, Len(s) - 2, Len(s)))

LowerChar(c) ==
    CASE c = "H" -> "h"
      [] c = "E" -> "e"
      [] c = "V" -> "v"
      [] c = "C" -> "c"
      [] c = "X" -> "x"
      [] OTHER -> c

Lower(s) == [i \in 1 .. Len(s) |-> LowerChar(s[i])]

(***************************************************************************)
(* Answers of the external tools                                           *)
(***************************************************************************)
\* subprocess.run(check=True) followed by json.loads: the call fails, the
\* output is no JSON, or the output is a JSON document
ProbeStatus == {"ok", "CalledProcessError", "JSONDecodeError"}

\* process_video, line 99: the largest width and height left as they are
MaxWidth == 1920

MaxHeight == 1080

Codecs ==
    { <<"h", "e", "v", "c">>, <<"H", "E", "V", "C">>, <<"h", "2", "6", "5">>,
      <<"X", "2", "6", "5">>, <<"h", "2", "6", "4">> }

Widths == {1920, 1921}

Heights == {1080, 1081}

StreamKeys == {"width", "height", "codec_name"}

\* ffprobe -show_streams: the first video stream, when there is one, and the
\* keys it carries
StreamResponses ==
    { [status |-> st, has_video |-> FALSE, present |-> {}, width |-> 0, height |-> 0,
       codec_name |-> << >>] : st \in ProbeStatus }
    \cup
    { [status |-> "ok", has_video |-> TRUE, present |-> ks, width |-> 3840,
       height |-> 2160, codec_name |-> <<"h", "2", "6", "4">>] :
         ks \in (SUBSET StreamKeys) \ {StreamKeys} }
    \cup
    { [status |-> "ok", has_video |-> TRUE, present |-> StreamKeys, width |-> MaxWidth,
       height |-> MaxHeight, codec_name |-> c] : c \in Codecs }
    \cup
    { [status |-> "ok", has_video |-> TRUE, present |-> StreamKeys, width |-> w,
       height |-> h, codec_name |-> c] :
         w \in Widths, h \in Heights, c \in { <<"h", "e", "v", "c">>, <<"h", "2", "6", "4">> } }

BitRateStrings ==
    { <<"0">>, <<"2">>, <<"1", "0", "0", "0", "0", "1", "0">>,
      <<"5", "0", "0", "0", "0", "0", "0">>,
      <<"N", "/", "A">> }

InputDurationStrings == { <<"1", "0", "0", ".", "0", "0", "0">>, <<"N", "/", "A">> }

OutputDurationStrings ==
    { <<"9", "5", ".", "0", "0", "0">>, <<"1", "0", "3", ".", "0", "0", "0">>,
      <<"1", "0", "4", ".", "9", "9", "9">>, <<"1", "0", "5", ".", "0", "0", "0">>,
      <<"1", "1", "0", ".", "0", "0", "0">>, <<"N", "/", "A">> }

\* ffprobe -show_format: the keys of the "format" object that the code reads
FormatResponses(key, values) ==
    { [status |-> st, present |-> {}, value |-> << >>] : st \in ProbeStatus }
    \cup
    { [status |-> "ok", present |-> {key}, value |-> v] : v \in values }

\* ffmpeg -encoders: the call raises, or prints the encoders it was built with
EncoderLists ==
    { [raised |-> TRUE, encoders |-> {}],
      [raised |-> FALSE, encoders |-> {"libx265"}],
      [raised |-> FALSE, encoders |-> {"libx265", "hevc_nvenc"}] }

(***************************************************************************)
(* The functions of video_converter.py                                     *)
(***************************************************************************)
DurationTolerance == 5

NoInfo == [width |-> None, height |-> None, codec |-> None]

\* get_video_info with video_stream.get('codec_name', ''): a stream without a
\* codec name is returned with an empty one
get_video_info_default_codec(r) ==
    IF r.status # "ok" THEN NoInfo
    ELSE IF ~ r.has_video THEN NoInfo
    ELSE IF ~ ({"width", "height"} \subseteq r.present) THEN NoInfo
    ELSE [width |-> Some(r.width), height |-> Some(r.height),
          codec |-> Some(IF "codec_name" \in r.present THEN r.codec_name ELSE << >>)]

\* get_video_info: (width, height, codec) of the first video stream, or
\* (None, None, None) when the probe fails, no video stream is found or a key
\* is missing
get_video_info(r) ==
    IF r.status # "ok" THEN NoInfo
    ELSE IF ~ r.has_video THEN NoInfo
    ELSE IF ~ (StreamKeys \subseteq r.present) THEN NoInfo
    ELSE [width |-> Some(r.width), height |-> Some(r.height), codec |-> Some(r.codec_name)]

\* get_video_bitrate: int(probe_data['format']['bit_rate']).  The except clause
\* catches CalledProcessError, JSONDecodeError and KeyError; the ValueError of
\* int() is not caught.
get_video_bitrate(r) ==
    IF r.status # "ok" \/ "bit_rate" \notin r.present THEN [raised |-> FALSE, value |-> None]
    ELSE IF ~ IsIntLiteral(r.value) THEN [raised |-> TRUE, value |-> None]
    ELSE [raised |-> FALSE, value |-> Some(ParseInt(r.value))]

\* get_video_duration: float(probe_data['format']['duration']), same except clause
get_video_duration(r) ==
    IF r.status # "ok" \/ "duration" \notin r.present THEN [raised |-> FALSE, value |-> None]
    ELSE IF ~ IsFloatLiteral(r.value) THEN [raised |-> TRUE, value |-> None]
    ELSE [raised |-> FALSE, value |-> Some(ParseFloat(r.value))]

\* check_gpu_availability: 'hevc_nvenc' in result.stdout, False on any exception
check_gpu_availability(r) ==
    IF r.raised THEN FALSE ELSE "hevc_nvenc" \in r.encoders

\* the decision with the codec test attached by elif: it is skipped when the
\* resolution test has matched
needs_conversion_elif(w, h, c) ==
    LET resolution == w > MaxWidth \/ h > MaxHeight
        not_h265 == Lower(c) \notin { <<"h", "e", "v", "c">>, <<"h", "2", "6", "5">>,
                                      <<"x", "2", "6", "5">> }
    IN  [needs_conversion |-> resolution \/ not_h265,
         conversion_reason |->
            IF resolution THEN << [reason |-> "resolution above 1080p", codec |-> << >>] >>
            ELSE IF not_h265 THEN << [reason |-> "codec is not H.265", codec |-> c] >>
            ELSE << >>]

\* the decision with the codec compared as it is spelt, without lower()
needs_conversion_case_sensitive(w, h, c) ==
    LET resolution == w > MaxWidth \/ h > MaxHeight
        not_h265 == c \notin { <<"h", "e", "v", "c">>, <<"h", "2", "6", "5">>,
                               <<"x", "2", "6", "5">> }
    IN  [needs_conversion |-> resolution \/ not_h265,
         conversion_reason |->
            (IF resolution THEN << [reason |-> "resolution above 1080p", codec |-> << >>] >>
             ELSE << >>)
            \o
            (IF not_h265 THEN << [reason |-> "codec is not H.265", codec |-> c] >>
             ELSE << >>)]

\* process_video, lines 96-105: both conditions are tested, one after the
\* other, and each one that holds adds its reason
needs_conversion_of(w, h, c) ==
    LET resolution == w > MaxWidth \/ h > MaxHeight
        not_h265 == Lower(c) \notin { <<"h", "e", "v", "c">>, <<"h", "2", "6", "5">>,
                                      <<"x", "2", "6", "5">> }
    IN  [needs_conversion |-> resolution \/ not_h265,
         conversion_reason |->
            (IF resolution THEN << [reason |-> "resolution above 1080p", codec |-> << >>] >>
             ELSE << >>)
            \o
            (IF not_h265 THEN << [reason |-> "codec is not H.265", codec |-> c] >>
             ELSE << >>)]

\* process_video, line 92: the file is skipped when any of the three is None
info_detection_failed(w, h, c) == w = None \/ h = None \/ c = None

\* convert_video, lines 54-59: "2M" when the bitrate is unknown, else
\* str(int(original_bitrate * 0.9)); int() truncates, and the float product
\* has the integer part of 9 * b / 10 for every bitrate below 2^50
target_bitrate_of(original_bitrate) ==
    IF original_bitrate = None THEN <<"2", "M">>
    ELSE Str((Val(original_bitrate) * 9) \div 10)

\* convert_video, lines 61-68
encoder_settings(gpu_available) ==
    IF gpu_available
    THEN [target_codec |-> "hevc_nvenc", preset |-> "p5", crf |-> "28"]
    ELSE [target_codec |-> "libx265", preset |-> "slower", crf |-> "23"]

\* the argument list with maxrate rounded to the nearest integer, a half up
build_cmd_maxrate_rounded(target_bitrate, gpu_available) ==
    IF ~ IsIntLiteral(target_bitrate) THEN [raised |-> TRUE, cmd |-> None]
    ELSE [raised |-> FALSE,
          cmd |-> Some([c_v |-> encoder_settings(gpu_available).target_codec,
                        crf |-> encoder_settings(gpu_available).crf,
                        preset |-> encoder_settings(gpu_available).preset,
                        vf |-> <<MaxWidth, MaxHeight>>,
                        b_v |-> target_bitrate,
                        maxrate |-> Str((ParseInt(target_bitrate) * 3 + 1) \div 2),
                        bufsize |-> Str(ParseInt(target_bitrate) * 2)])]

\* convert_video, lines 70-83: the argument list of ffmpeg.  int(target_bitrate)
\* raises ValueError for a string that is no numeral, and the except clause
\* of line 87 catches CalledProcessError only.
build_cmd(target_bitrate, gpu_available) ==
    IF ~ IsIntLiteral(target_bitrate) THEN [raised |-> TRUE, cmd |-> None]
    ELSE [raised |-> FALSE,
          cmd |-> Some([c_v |-> encoder_settings(gpu_available).target_codec,
                        crf |-> encoder_settings(gpu_available).crf,
                        preset |-> encoder_settings(gpu_available).preset,
                        vf |-> <<MaxWidth, MaxHeight>>,
                        b_v |-> target_bitrate,
                        maxrate |-> Str((ParseInt(target_bitrate) * 3) \div 2),
                        bufsize |-> Str(ParseInt(target_bitrate) * 2)])]

Abs(x) == IF x < 0 THEN -x ELSE x

\* the comparison without abs(): an output longer than the input always passes
compare_durations_signed(input_duration, output_duration) ==
    IF input_duration # None /\ output_duration # None
    THEN IF Val(input_duration) - Val(output_duration) < DurationTolerance * 1000
         THEN "Original file deleted"
         ELSE "Warning: Duration mismatch"
    ELSE "Warning: Could not compare file durations"

\* the comparison with <= in place of <
compare_durations_inclusive(input_duration, output_duration) ==
    IF input_duration # None /\ output_duration # None
    THEN IF Abs(Val(input_duration) - Val(output_duration)) <= DurationTolerance * 1000
         THEN "Original file deleted"
         ELSE "Warning: Duration mismatch"
    ELSE "Warning: Could not compare file durations"

\* process_video, lines 119-130: the line printed once both durations were asked for
compare_durations(input_duration, output_duration) ==
    IF input_duration # None /\ output_duration # None
    THEN IF Abs(Val(input_duration) - Val(output_duration)) < DurationTolerance * 1000
         THEN "Original file deleted"
         ELSE "Warning: Duration mismatch"
    ELSE "Warning: Could not compare file durations"

\* process_video, lines 122-126: os.remove(input_file) is commented out, so
\* the files on disk stay as they are
delete_original(disk, input_file) == disk

(***************************************************************************)
(* State                                                                   *)
(***************************************************************************)
VARIABLES
    idx,                \* main: how many candidates process_video was called for
    pc,                 \* the external call the program is about to make
    disk_in,            \* the original files that are on disk
    disk_out,           \* file -> whether its output path exists on disk
    stream_probe,       \* get_video_info: the probe answer it read
    width, height, codec,
    needs_conversion, conversion_reason,
    gpu_available, original_bitrate, target_bitrate, cmd,
    input_duration, output_duration,
    printed,            \* file -> the lines printed about it
    calls               \* file -> the external calls made for it

info_vars == <<stream_probe, width, height, codec, needs_conversion, conversion_reason>>

plan_vars == <<gpu_available, original_bitrate, target_bitrate, cmd>>

duration_vars == <<input_duration, output_duration>>

vars == <<idx, pc, disk_in, disk_out, info_vars, plan_vars, duration_vars, printed, calls>>

Printing(log, f, lines) == [log EXCEPT ![f] = @ \cup lines]

Calling(log, f, call) == [log EXCEPT ![f] = @ \cup {call}]


Init ==
    /\ idx = 0
    /\ pc = "main"
    /\ disk_in = Files
    /\ disk_out = [f \in Files |-> FALSE]
    /\ stream_probe = None
    /\ width = None /\ height = None /\ codec = None
    /\ needs_conversion = None /\ conversion_reason = None
    /\ gpu_available = None /\ original_bitrate = None
    /\ target_bitrate = None /\ cmd = None
    /\ input_duration = None /\ output_duration = None
    /\ printed = [f \in Files |-> {}]
    /\ calls = [f \in Files |-> {}]

(***************************************************************************)
(* main takes the next candidate and calls process_video, which runs       *)
(* get_video_info and decides (lines 147-148, 91-110, 133-134)             *)
(***************************************************************************)
ProcessVideo ==
    /\ pc = "main"
    /\ idx < NumFiles
    /\ \E r \in StreamResponses :
         LET f == idx + 1
             info == get_video_info(r)
             caught == r.status # "ok" \/ (r.has_video /\ ~ (StreamKeys \subseteq r.present))
             failed == info_detection_failed(info.width, info.height, info.codec)
             decision == needs_conversion_of(Val(info.width), Val(info.height), Val(info.codec))
         IN  /\ idx' = f
             /\ stream_probe' = Some(r)
             /\ width' = info.width
             /\ height' = info.height
             /\ codec' = info.codec
             /\ calls' = Calling(calls, f, "ffprobe -show_streams")
             /\ IF failed
                THEN /\ needs_conversion' = None
                     /\ conversion_reason' = None
                     /\ printed' = Printing(printed, f,
                            (IF caught THEN {"Error: Could not determine video info"} ELSE {})
                            \cup {"Skipping"})
                     /\ pc' = "main"
                ELSE /\ needs_conversion' = Some(decision.needs_conversion)
                     /\ conversion_reason' = Some(decision.conversion_reason)
                     /\ IF decision.needs_conversion
                        THEN /\ printed' = Printing(printed, f, {"Converting"})
                             /\ pc' = "check_gpu_availability"
                        ELSE /\ printed' = Printing(printed, f, {"already 1080p (or lower) H.265"})
                             /\ pc' = "main"
    /\ gpu_available' = None /\ original_bitrate' = None
    /\ target_bitrate' = None /\ cmd' = None
    /\ input_duration' = None /\ output_duration' = None
    /\ UNCHANGED <<disk_in, disk_out>>

(***************************************************************************)
(* convert_video, line 50                                                  *)
(***************************************************************************)
CheckGpuAvailability ==
    /\ pc = "check_gpu_availability"
    /\ \E r \in EncoderLists :
         gpu_available' = Some(check_gpu_availability(r))
    /\ calls' = Calling(calls, idx, "ffmpeg -encoders")
    /\ pc' = "get_video_bitrate"
    /\ UNCHANGED <<idx, disk_in, disk_out, info_vars, original_bitrate, target_bitrate,
                   cmd, duration_vars, printed>>

(***************************************************************************)
(* convert_video, lines 53-83: the bitrate probe and the argument list     *)
(***************************************************************************)
GetVideoBitrate ==
    /\ pc = "get_video_bitrate"
    /\ calls' = Calling(calls, idx, "ffprobe bit_rate")
    /\ \E r \in FormatResponses("bit_rate", BitRateStrings) :
         LET probe == get_video_bitrate(r)
             target == target_bitrate_of(probe.value)
             built == build_cmd(target, Val(gpu_available))
         IN  IF probe.raised
             THEN /\ pc' = "crashed"
                  /\ UNCHANGED <<original_bitrate, target_bitrate, cmd, printed>>
             ELSE /\ original_bitrate' = probe.value
                  /\ target_bitrate' = Some(target)
                  /\ printed' = Printing(printed, idx,
                         IF probe.value = None
                         THEN {"Error: Could not determine bitrate", "Using default settings"}
                         ELSE {})
                  /\ cmd' = built.cmd
                  /\ pc' = IF built.raised THEN "crashed" ELSE "ffmpeg"
    /\ UNCHANGED <<idx, disk_in, disk_out, info_vars, gpu_available, duration_vars>>

(***************************************************************************)
(* convert_video, lines 84-88, and process_video, lines 111-114 and 132:   *)
(* ffmpeg runs; whether it succeeds or not, process_video goes on and      *)
(* looks for the output file                                               *)
(***************************************************************************)
RunEncoder ==
    /\ pc = "ffmpeg"
    /\ calls' = Calling(calls, idx, "ffmpeg")
    /\ \E succeeded \in BOOLEAN, exists \in BOOLEAN :
         /\ disk_out' = [disk_out EXCEPT ![idx] = exists]
         /\ printed' = Printing(printed, idx,
                {IF succeeded THEN "Conversion completed" ELSE "Error: Failed to convert",
                 "Conversion complete. Output file"}
                \cup (IF exists THEN {} ELSE {"Warning: Output file does not exist"}))
         /\ pc' = IF exists THEN "input_duration" ELSE "main"
    /\ UNCHANGED <<idx, disk_in, info_vars, plan_vars, duration_vars>>

(***************************************************************************)
(* process_video, line 116                                                 *)
(***************************************************************************)
GetInputDuration ==
    /\ pc = "input_duration"
    /\ calls' = Calling(calls, idx, "ffprobe duration input")
    /\ \E r \in FormatResponses("duration", InputDurationStrings) :
         LET probe == get_video_duration(r)
         IN  IF probe.raised
             THEN /\ pc' = "crashed"
                  /\ UNCHANGED <<input_duration, printed>>
             ELSE /\ input_duration' = probe.value
                  /\ printed' = Printing(printed, idx,
                         IF probe.value = None
                         THEN {"Error: Could not determine duration"} ELSE {})
                  /\ pc' = "output_duration"
    /\ UNCHANGED <<idx, disk_in, disk_out, info_vars, plan_vars, output_duration>>

(***************************************************************************)
(* process_video, lines 117-130: the second duration and the comparison    *)
(***************************************************************************)
GetOutputDuration ==
    /\ pc = "output_duration"
    /\ calls' = Calling(calls, idx, "ffprobe duration output")
    /\ \E r \in FormatResponses("duration", OutputDurationStrings) :
         LET probe == get_video_duration(r)
             line == compare_durations(input_duration, probe.value)
         IN  IF probe.raised
             THEN /\ pc' = "crashed"
                  /\ UNCHANGED <<output_duration, printed, disk_in>>
             ELSE /\ output_duration' = probe.value
                  /\ printed' = Printing(printed, idx,
                         (IF probe.value = None
                          THEN {"Error: Could not determine duration"} ELSE {})
                         \cup {line})
                  /\ disk_in' = IF line = "Original file deleted"
                                THEN delete_original(disk_in, idx) ELSE disk_in
                  /\ pc' = "main"
    /\ UNCHANGED <<idx, disk_out, info_vars, plan_vars, input_duration>>

(***************************************************************************)
(* main, line 147: no candidate is left                                    *)
(***************************************************************************)
MainReturns ==
    /\ pc = "main"
    /\ idx = NumFiles
    /\ pc' = "exit"
    /\ UNCHANGED <<idx, disk_in, disk_out, info_vars, plan_vars, duration_vars, printed, calls>>

Next ==
    \/ ProcessVideo
    \/ CheckGpuAvailability
    \/ GetVideoBitrate
    \/ RunEncoder
    \/ GetInputDuration
    \/ GetOutputDuration
    \/ MainReturns

Spec == Init /\ [][Next]_vars

(***************************************************************************)
(* Properties                                                              *)
(***************************************************************************)
Deleted == "Original file deleted"

Mismatch == "Warning: Duration mismatch"

CouldNotCompare == "Warning: Could not compare file durations"

OutputMissing == "Warning: Output file does not exist"

VerdictLines == {Deleted, Mismatch, CouldNotCompare, OutputMissing}

\* the pass of process_video over file f has returned
Returned(f) == f < idx \/ (f = idx /\ pc \in {"main", "exit"})

CasePairs == { <<"H", "h">>, <<"E", "e">>, <<"V", "v">>, <<"C", "c">>, <<"X", "x">> }

EqualIgnoringCase(a, b) ==
    /\ Len(a) = Len(b)
    /\ \A i \in 1 .. Len(a) :
         a[i] = b[i] \/ <<a[i], b[i]>> \in CasePairs \/ <<b[i], a[i]>> \in CasePairs

IsH265Name(c) ==
    \/ EqualIgnoringCase(c, <<"h", "e", "v", "c">>)
    \/ EqualIgnoringCase(c, <<"h", "2", "6", "5">>)
    \/ EqualIgnoringCase(c, <<"x", "2", "6", "5">>)

\* round(n / d) as Python rounds: to the nearest integer, a tie to the even one
RoundHalfEven(n, d) ==
    LET q == n \div d
        r == n % d
    IN  IF 2 * r < d THEN q
        ELSE IF 2 * r > d THEN q + 1
        ELSE IF q % 2 = 0 THEN q ELSE q + 1

\* C1: a file is gone from disk, or reported deleted, only when the validation
\* of that file found the output on disk, got both durations and found them
\* less than 5 seconds apart; a file with any of the three other verdicts is
\* on disk and is not reported deleted.
C1_DeleteOnlyWhenSafe ==
    \A f \in Files :
      /\ (f \notin disk_in \/ Deleted \in printed[f]) =>
            /\ "ffprobe duration output" \in calls[f]
            /\ disk_out[f]
            /\ printed[f] \cap VerdictLines = {Deleted}
            /\ f = idx =>
                 /\ input_duration # None
                 /\ output_duration # None
                 /\ Val(input_duration) - Val(output_duration) < 5000
                 /\ Val(output_duration) - Val(input_duration) < 5000
      /\ printed[f] \cap {Mismatch, CouldNotCompare, OutputMissing} # {} =>
            f \in disk_in /\ Deleted \notin printed[f]

C1_Witness ==
    /\ pc = "main"
    /\ idx >= 1
    /\ Deleted \in printed[idx]
    /\ Val(output_duration) - Val(input_duration) = 4999

\* C2: the original file is removed from disk exactly when the verdict for
\* it is SafeToDelete: a file that is gone has that verdict, and a file that
\* was encoded successfully and has that verdict is gone.
C2_RemovedIffSafe ==
    \A f \in Files :
      /\ f \notin disk_in => Deleted \in printed[f]
      /\ (Deleted \in printed[f] /\ "Conversion completed" \in printed[f]) => f \notin disk_in

\* C3: after a failed run of the encoder on a file nothing is reported
\* deleted, or removed, for that file.
C3_EncodeFailureIsTerminal ==
    \A f \in Files :
      "Error: Failed to convert" \in printed[f] =>
          Deleted \notin printed[f] /\ f \in disk_in

\* C4: the run ends only by main returning, after process_video was
\* called for every candidate.
C4_ScanCompletes ==
    pc \in {"exit", "crashed"} =>
        pc = "exit" /\ \A f \in Files : "ffprobe -show_streams" \in calls[f]

\* C5: for a usable descriptor conversion is decided exactly when the width
\* is above 1920, the height is above 1080 or the codec, whatever its case, is
\* none of hevc, h265, x265; the reasons are the resolution reason exactly when
\* the resolution is too large, followed by the codec reason exactly when the
\* codec is not H.265, and nothing else.
C5_NeedsConversion ==
    needs_conversion # None =>
        LET w == Val(width)
            h == Val(height)
            c == Val(codec)
            too_large == w > 1920 \/ h > 1080
            other_codec == ~ IsH265Name(c)
            reasons == Val(conversion_reason)
            told(r) == \E i \in 1 .. Len(reasons) : reasons[i].reason = r
        IN  /\ Val(needs_conversion) = (too_large \/ other_codec)
            /\ told("resolution above 1080p") = too_large
            /\ told("codec is not H.265") = other_codec
            /\ Len(reasons) = (IF too_large THEN 1 ELSE 0) + (IF other_codec THEN 1 ELSE 0)
            /\ \A i \in 1 .. Len(reasons) :
                 reasons[i].reason = "codec is not H.265" => reasons[i].codec = c

C5_Witness ==
    /\ needs_conversion = Some(TRUE)
    /\ Len(Val(conversion_reason)) = 2
    /\ Val(width) = 1920
    /\ Val(height) = 1081

C7_TargetBitrateNeverUnset ==
    target_bitrate # None =>
        IF original_bitrate # None
        THEN /\ IsIntLiteral(Val(target_bitrate))
             /\ 10 * ParseInt(Val(target_bitrate)) - 9 * Val(original_bitrate) < 10
             /\ 9 * Val(original_bitrate) - 10 * ParseInt(Val(target_bitrate)) < 10
        ELSE /\ pc # "crashed"
             /\ cmd # None
             /\ ParseInt(Val(cmd).maxrate) = 3000000
             /\ ParseInt(Val(cmd).bufsize) = 4000000

\* C8, as claimed: in every argument list handed to the encoder the target
\* bitrate is positive, maxrate is round(1.5 x target) and bufsize is 2 x target.
C8_PlanRatesRounded ==
    cmd # None =>
        LET target == ParseInt(Val(cmd).b_v)
        IN  /\ target > 0
            /\ ParseInt(Val(cmd).maxrate) = RoundHalfEven(3 * target, 2)
            /\ ParseInt(Val(cmd).bufsize) = 2 * target

\* C8, amended: in every argument list handed to the encoder the input bitrate
\* b is known, the target is 0.9 x b cut to an integer (0 for b < 2, positive
\* from 2 on), maxrate is 1.5 x target cut to an integer, bufsize is 2 x target.
C8_PlanRatesTruncated ==
    cmd # None =>
        LET target == ParseInt(Val(cmd).b_v)
            maxrate == ParseInt(Val(cmd).maxrate)
            bufsize == ParseInt(Val(cmd).bufsize)
        IN  /\ original_bitrate # None
            /\ Val(target_bitrate) = Val(cmd).b_v
            /\ 10 * target <= 9 * Val(original_bitrate)
            /\ 9 * Val(original_bitrate) < 10 * target + 10
            /\ (target > 0) = (Val(original_bitrate) >= 2)
            /\ 2 * maxrate <= 3 * target
            /\ 3 * target < 2 * maxrate + 2
            /\ bufsize = 2 * target

C8_Witness ==
    /\ pc = "ffmpeg"
    /\ original_bitrate = Some(2)
    /\ Val(cmd).b_v = <<"1">>
    /\ Val(cmd).maxrate = <<"1">>
    /\ Val(cmd).bufsize = <<"2">>

\* C9, as claimed: the encoder runs on a file only if every probed field of
\* the file was obtained: width, height, codec, bitrate and, where the program
\* asked for it, the duration of the input.
C9_AllFieldsObtained ==
    (idx >= 1 /\ pc # "crashed" /\ "Conversion completed" \in printed[idx]
        /\ "ffprobe duration input" \in calls[idx]) =>
        /\ width # None /\ height # None /\ codec # None
        /\ original_bitrate # None
        /\ input_duration # None

\* C9, amended: the decision and the encoder are reached only with width,
\* height and codec all read from the video stream of one probe answer; when
\* the probe fails, finds no video stream or lacks one of the three keys, all
\* three are None, the file is skipped, and nothing but that probe is run on it.
C9_StreamFieldsAllOrNothing ==
    idx >= 1 =>
        LET r == Val(stream_probe)
            complete == r.status = "ok" /\ r.has_video /\ r.present = {"width", "height", "codec_name"}
        IN  IF complete
            THEN /\ width = Some(r.width) /\ height = Some(r.height)
                 /\ codec = Some(r.codec_name)
                 /\ needs_conversion # None
            ELSE /\ width = None /\ height = None /\ codec = None
                 /\ needs_conversion = None
                 /\ pc \in {"main", "exit"}
                 /\ "Skipping" \in printed[idx]
                 /\ calls[idx] = {"ffprobe -show_streams"}
                 /\ cmd = None

C9_Witness ==
    /\ idx >= 1
    /\ Val(stream_probe).present = {"width", "height"}
    /\ "Skipping" \in printed[idx]

\* C10: a file whose descriptor has width <= 1920, height <= 1080 and an H.265
\* codec name in any case is reported as already compliant and its pass ends:
\* no call but the stream probe is made for it, no output appears, no verdict
\* is printed and the file stays on disk.
C10_CompliantFileLeftAlone ==
    (idx >= 1 /\ width # None /\ Val(width) <= 1920 /\ Val(height) <= 1080
        /\ IsH265Name(Val(codec))) =>
        /\ pc \in {"main", "exit"}
        /\ printed[idx] = {"already 1080p (or lower) H.265"}
        /\ calls[idx] = {"ffprobe -show_streams"}
        /\ ~ disk_out[idx]
        /\ idx \in disk_in
        /\ gpu_available = None /\ original_bitrate = None /\ cmd = None
        /\ input_duration = None /\ output_duration = None

C10_Witness ==
    /\ idx >= 1
    /\ printed[idx] = {"already 1080p (or lower) H.265"}
    /\ codec = Some(<<"H", "E", "V", "C">>)
    /\ width = Some(1920)
    /\ height = Some(1080)

====
